---- MODULE Spec2Model ----
(***************************************************************************)
(* Model of flatten_crosref_metadata.py: the resumable batch-fetch         *)
(* pipeline.  One run of main() reads the input list, loads the checkpoint *)
(* artifact, partitions the remaining identifiers into batches and, per    *)
(* batch, fetches (with bounded retry), writes the batch artifact and      *)
(* rewrites the checkpoint artifact.  Several runs follow each other on    *)
(* the same disk state.                                                    *)
(*                                                                         *)
(* Identifiers are sequences of character codes, so that lower-casing,     *)
(* line formatting and line stripping are computed and not assumed.        *)
(***************************************************************************)
EXTENDS Integers, Sequences, FiniteSets, Bags, TLC

\* ------------------------------------------------------------------ bounds
MaxInput     == 2   \* longest input list
MaxBatchSize == 2   \* largest BATCH_SIZE setting explored
MaxRuns      == 2   \* program invocations on the same disk state
PartMaxInput == 4   \* longest input list of the partitioning specification
PartMaxBatch == 3   \* largest BATCH_SIZE of the partitioning specification
FetchMaxBatch == 2  \* longest batch of the fetcher specification

\* --------------------------------------------------------------- constants
MAX_RETRIES == 5
DefaultBatchSize == 100   \* BATCH_SIZE as the source sets it

\* Character codes: 'A' = 65, 'a' = 97, 'b' = 98, ' ' = 32, '\n' = 10.
NL == 10
SP == 32
Whitespace == {SP, NL}

\* The raw identifiers an input artifact can carry: "A", "a", "b".
RawIds == {<<65>>, <<97>>, <<98>>}

\* The identifiers of the input lists that whole runs are explored on: one
\* that lower-casing changes and one that it leaves alone.  CaseVariants is
\* the input whose two entries differ only in case.
InputIds == {<<65>>, <<98>>}
CaseVariants == <<<<65>>, <<97>>>>

\* The 'DOI' values the registry can answer with: it echoes "a" as "A"
\* (mixed case) and "b" as "b".
RegistryIds == {<<65>>, <<98>>}

VARIABLES
    input,           \* the input artifact: [kind, dois]
    BATCH_SIZE,      \* the BATCH_SIZE setting of the program (line 23)
    ckptFile,        \* PROCESSED_DOIS_FILE on disk: [exists, lines]
    dirExists,       \* METADATA_DIR exists on disk
    artifacts,       \* METADATA_DIR: artifact name -> sequence of record lines
    run,             \* number of the current program invocation
    pc,              \* position of the current invocation
    processed_dois,  \* main(): the in-memory CheckpointSet
    doi_batches,     \* main(): the batches of this run
    batch_num,       \* main(): loop variable, 1-based
    results,         \* main(): result of fetch_metadata_batch for batch_num
    attempt,         \* fetch_metadata_batch(): retry counter
    fcalls,          \* registry calls made by the current fetch_metadata_batch
    sleeps,          \* time.sleep arguments of the current fetch_metadata_batch
    last_response,   \* type of the last registry response of the current fetch
    called,          \* the current run has made a registry call
    write_failed,    \* save_batch_compressed took its except branch (line 113)
    opened,          \* the artifact names the current run opened for writing
    artifactsAtStart,\* METADATA_DIR as the current run found it
    ckptAtStart,     \* the checkpoint artifact as the current run found it
    prevRun,         \* the position at which the previous run ended
    seen_response,   \* fetch_metadata_batch(): what the last registry call
                     \* gave, kept only by the fetcher specification
    failed_ids       \* the identifiers of the batches of the latest batch
                     \* loop whose fetch gave up or whose write recorded
                     \* nothing; kept until the first batch of the next loop
                     \* is written

vars == <<input, BATCH_SIZE, ckptFile, dirExists, artifacts, run, pc,
          processed_dois, doi_batches, batch_num, results, attempt, fcalls,
          sleeps, last_response, called, write_failed, opened,
          artifactsAtStart, ckptAtStart, prevRun,
          seen_response, failed_ids>>

\* ------------------------------------------------------------ pure helpers
Range(s) == {s[i] : i \in DOMAIN s}

Min(a, b) == IF a < b THEN a ELSE b

RECURSIVE Pow2(_)
Pow2(n) == IF n = 0 THEN 1 ELSE 2 * Pow2(n - 1)

\* str.lower / pl.col('doi').str.to_lowercase on one character
LowerChar(c) == IF c \in 65..90 THEN c + 32 ELSE c

\* str.lower on a string
ToLower(s) == [i \in DOMAIN s |-> LowerChar(s[i])]

\* df_dois.with_columns(pl.col('doi').str.to_lowercase())['doi'].to_list()
LowerAll(list) == [i \in DOMAIN list |-> ToLower(list[i])]

IsLower(s) == \A i \in DOMAIN s : s[i] \notin 65..90

\* str.strip: drop leading and trailing whitespace
RECURSIVE LStrip(_)
LStrip(s) == IF s # <<>> /\ Head(s) \in Whitespace THEN LStrip(Tail(s)) ELSE s

RECURSIVE RStrip(_)
RStrip(s) ==
    IF s # <<>> /\ s[Len(s)] \in Whitespace
    THEN RStrip(SubSeq(s, 1, Len(s) - 1))
    ELSE s

Strip(s) == RStrip(LStrip(s))

\* f"{doi}\n"
FormatLine(doi) == doi \o <<NL>>

\* The artifact named from the number of batches: f"batch_{num_batches}..."
BatchFilenameTotal(n) == <<"batch_", Len(doi_batches), ".jsonl.gz">>

\* f"batch_{batch_num}.jsonl.gz"
BatchFilename(n) == <<"batch_", n, ".jsonl.gz">>

\* Mutant of Slice: the upper bound taken as inclusive.
SliceInclusive(s, lo, hi) == SubSeq(s, lo + 1, Min(hi + 1, Len(s)))

\* Python slice s[lo:hi] (0-based, hi exclusive, clamped to the length)
Slice(s, lo, hi) == SubSeq(s, lo + 1, Min(hi, Len(s)))

\* ------------------------------------------------------- checkpoint store
NoFile == [exists |-> FALSE, lines |-> EmptyBag]

\* The file that a completed save of `set` leaves: one line per identifier.
FileOf(set) ==
    [exists |-> TRUE, lines |-> SetToBag({FormatLine(d) : d \in set})]

\* Mutant of SavedFile: the file opened in append mode.
SavedFileAppend(old, written) ==
    [exists |-> TRUE, lines |-> old.lines (+) FileOf(written).lines]

\* open(processed_dois_file, 'w') drops what the file held; the lines of
\* `written` follow.
SavedFile(old, written) == FileOf(written)

\* load_processed_dois without the strip of line 43: the lines as they are.
load_unstripped(file) ==
    IF file.exists THEN BagToSet(file.lines) ELSE {}

\* load_processed_dois (lines 37-47)
load_processed_dois(file) ==
    IF file.exists
    THEN {Strip(l) : l \in {x \in BagToSet(file.lines) : Strip(x) # <<>>}}
    ELSE {}

\* ---------------------------------------------------------------- batcher
\* Mutant of Remaining: the filter left out.
RemainingUnfiltered(doi_list, processed) == doi_list

\* remaining_dois = [doi for doi in doi_list if doi not in processed_dois]
Remaining(doi_list, processed) ==
    SelectSeq(doi_list, LAMBDA d : d \notin processed)

\* Mutant of NumBatches: floor for ceiling.
NumBatchesFloor(total_dois, size) == total_dois \div size

NumBatches(total_dois, size) == (total_dois + size - 1) \div size

Partition(remaining_dois, size) ==
    [k \in 1..NumBatches(Len(remaining_dois), size) |->
        Slice(remaining_dois, (k - 1) * size, k * size)]

\* ---------------------------------------------------------------- fetcher
\* One element of a list response, or the single mapping of a dict response:
\*   kind "msg"        a mapping with a 'message' whose 'DOI' is doi
\*                     (doi = <<>>: 'DOI' missing or empty)
\*   kind "nomsg"      a mapping without 'message' (an error structure)
\*   kind "nonmapping" a value that supports neither `in` nor subscripting
Elem(kind, doi) == [kind |-> kind, doi |-> doi]

\* res['message']: the metadata record, passed through untouched
Item(res) == [DOI |-> res.doi]

\* Mutant of ResultPair: the identifier paired as the registry sent it.
ResultPairAsSent(res) == <<res.doi, Item(res)>>

\* (doi.lower(), item), appended at lines 77 and 83
ResultPair(res) == <<ToLower(res.doi), Item(res)>>

\* Every error the modelled code can raise inside the try block.
ErrorKinds == {"ConnectionError", "TypeError", "AttributeError"}

\* Mutant of Catches: only the error of the call itself is caught.
CatchesCallErrors(exc) == exc = "ConnectionError"

\* except Exception as e (line 87)
Catches(exc) == exc \in ErrorKinds

\* ListBranch without the `if doi` of line 76: doi.lower() raises on a record
\* that lacks the 'DOI'.
RECURSIVE ListBranchStrict(_, _)
ListBranchStrict(response, acc) ==
    IF response = <<>> THEN [exc |-> "none", results |-> acc]
    ELSE LET res == Head(response) IN
         IF res.kind = "nonmapping"
         THEN [exc |-> "TypeError", results |-> <<>>]
         ELSE IF res.kind = "msg" /\ res.doi = <<>>
         THEN [exc |-> "AttributeError", results |-> <<>>]
         ELSE IF res.kind = "msg"
         THEN ListBranchStrict(Tail(response), Append(acc, ResultPair(res)))
         ELSE ListBranchStrict(Tail(response), acc)

\* for res in response: ... (lines 72-77)
RECURSIVE ListBranch(_, _)
ListBranch(response, acc) ==
    IF response = <<>> THEN [exc |-> "none", results |-> acc]
    ELSE LET res == Head(response) IN
         IF res.kind = "nonmapping"
         THEN [exc |-> "TypeError", results |-> <<>>]
         ELSE IF res.kind = "msg" /\ res.doi # <<>>
         THEN ListBranch(Tail(response),
                         Append(acc, ResultPair(res)))
         ELSE ListBranch(Tail(response), acc)

\* item = response.get('message'); doi = item.get('DOI') (lines 80-83)
DictBranch(res) ==
    IF res.kind # "msg"
    THEN [exc |-> "AttributeError", results |-> <<>>]
    ELSE IF res.doi # <<>>
    THEN [exc |-> "none", results |-> <<ResultPair(res)>>]
    ELSE [exc |-> "none", results |-> <<>>]

\* The body of the try block (lines 68-86) on one registry response.
TryBody(response) ==
    IF response.type = "raise"
    THEN [exc |-> "ConnectionError", results |-> <<>>]
    ELSE IF response.type = "list" THEN ListBranch(response.elems, <<>>)
    ELSE IF response.type = "dict" THEN DictBranch(response.elems[1])
    ELSE [exc |-> "none", results |-> <<>>]

\* Mutant of WaitTime: 2 * attempt for 2 ** attempt.
WaitTimeLinear(n) == 2 * n

\* wait_time = 2 ** attempt (line 91)
WaitTime(n) == Pow2(n)

\* What the registry can answer to a request for doi_batch: it raises, or
\* returns a value that is neither a list nor a mapping, or a single mapping,
\* or a list whose i-th element answers the i-th identifier requested.
Echoes(doi) == {d \in RegistryIds : ToLower(d) = doi}

Elems(doi) ==
    {Elem("msg", d) : d \in Echoes(doi) \cup {<<>>}}
        \cup {Elem("nomsg", <<>>), Elem("nonmapping", <<>>)}

SeqsUpTo(S, n) == UNION {[1..k -> S] : k \in 0..n}

ListResponses(doi_batch) ==
    UNION {{s \in [1..k -> UNION {Elems(d) : d \in Range(doi_batch)}] :
               \A i \in 1..k : s[i] \in Elems(doi_batch[i])} :
           k \in 0..Len(doi_batch)}

Responses(doi_batch) ==
    {[type |-> "raise", elems |-> <<>>], [type |-> "other", elems |-> <<>>]}
        \cup {[type |-> "dict", elems |-> <<e>>] :
                 e \in Elems(doi_batch[1]) \ {Elem("nonmapping", <<>>)}}
        \cup {[type |-> "list", elems |-> s] : s \in ListResponses(doi_batch)}

\* ------------------------------------------------------------ batch writer
\* The first k (doi, metadata) pairs of results: their record lines and dois.
LinesOf(res, k) == [i \in 1..k |-> res[i][2]]

DoisOf(res, k) == {res[i][1] : i \in 1..k}

\* ---------------------------------------------------------------- actions
\* No registry call has been made.
NoResponse == [type |-> "none", elems |-> <<>>]

\* Positions at which an invocation has ended: "Processing complete.", the
\* early returns of lines 129, 134 and 144, the early return of line 154, an
\* exception out of save_processed_dois, an exception out of
\* fetch_metadata_batch.
Terminal == {"done", "exit_load_error", "exit_all_processed", "crashed",
             "fetch_raised"}

Init ==
    /\ input \in {[kind |-> "unreadable", dois |-> <<>>],
                  [kind |-> "nodoi", dois |-> <<>>]}
                 \cup {[kind |-> "ok", dois |-> s] :
                         s \in SeqsUpTo(InputIds, MaxInput) \cup {CaseVariants}}
    /\ BATCH_SIZE \in 1..MaxBatchSize
    /\ ckptFile = NoFile
    /\ dirExists = FALSE
    /\ artifacts = <<>>
    /\ run = 1
    /\ pc = "start"
    /\ processed_dois = {}
    /\ doi_batches = <<>>
    /\ batch_num = 0
    /\ results = <<>>
    /\ attempt = 0
    /\ fcalls = 0
    /\ sleeps = <<>>
    /\ last_response = "none"
    /\ called = FALSE
    /\ write_failed = FALSE
    /\ opened = <<>>
    /\ artifactsAtStart = <<>>
    /\ ckptAtStart = NoFile
    /\ prevRun = "none"
    /\ seen_response = NoResponse
    /\ failed_ids = {}

\* main(), lines 126-129, 132-134 and 142-144: the three early returns on an
\* input artifact that cannot be used (unreadable, no 'doi' column, no
\* identifier).  LoadFailsUnreadableOnly leaves the last two out.
LoadFailsUnreadableOnly(inp) == inp.kind = "unreadable"

LoadFails(inp) == inp.kind # "ok" \/ LowerAll(inp.dois) = <<>>

\* main(), lines 122-134 and 142-144: the input artifact cannot be used.
MainLoadError ==
    /\ pc = "start"
    /\ LoadFails(input)
    /\ pc' = "exit_load_error"
    /\ UNCHANGED failed_ids
    /\ UNCHANGED <<seen_response,
                   input, BATCH_SIZE, ckptFile, dirExists, artifacts, run,
                   processed_dois, doi_batches, batch_num, results, attempt,
                   fcalls, sleeps, last_response, called, write_failed,
                   opened, artifactsAtStart, ckptAtStart, prevRun>>

\* main(), lines 122-162: read, lower-case, load the checkpoint, filter,
\* create the directory and partition.
MainLoad ==
    /\ pc = "start"
    /\ ~LoadFails(input)
    /\ LET doi_list == LowerAll(input.dois)
           loaded == load_processed_dois(ckptFile)
           remaining_dois == Remaining(doi_list, loaded)
       IN /\ processed_dois' = loaded
          /\ IF remaining_dois = <<>>
             THEN /\ pc' = "exit_all_processed"
                  /\ failed_ids' = {}
                  /\ UNCHANGED <<dirExists, doi_batches, batch_num>>
             ELSE /\ dirExists' = TRUE
                  /\ UNCHANGED failed_ids
                  /\ doi_batches' = Partition(remaining_dois, BATCH_SIZE)
                  /\ IF Partition(remaining_dois, BATCH_SIZE) = <<>>
                     THEN \* the for loop has nothing to visit
                          /\ batch_num' = 0
                          /\ pc' = "done"
                     ELSE /\ batch_num' = 1
                          /\ pc' = "fetch"
    /\ UNCHANGED <<seen_response,
                   input, BATCH_SIZE, ckptFile, artifacts, run, results,
                   attempt, fcalls, sleeps, last_response, called,
                   write_failed, opened, artifactsAtStart, ckptAtStart,
                   prevRun>>

\* The condition of the while loop (line 65) and of the if of line 90.
\* MayRetryAlways is a loop that never gives up.
MayRetryAlways(n) == TRUE

MayRetry(n) == n < MAX_RETRIES

\* fetch_metadata_batch, one iteration of the while loop (lines 65-96) in
\* which the registry call gives resp.
FetchOn(resp) ==
    /\ pc = "fetch"
    /\ MayRetry(attempt)
    /\ LET out == TryBody(resp) IN
         /\ fcalls' = fcalls + 1
         /\ last_response' = resp.type
         /\ called' = TRUE
         /\ IF out.exc = "none"
            THEN \* return results (line 86)
                 /\ results' = out.results
                 /\ pc' = "write"
                 /\ UNCHANGED <<attempt, sleeps>>
            ELSE IF ~Catches(out.exc)
            THEN \* the exception leaves fetch_metadata_batch and main
                 /\ pc' = "fetch_raised"
                 /\ UNCHANGED <<results, attempt, sleeps>>
            ELSE /\ attempt' = attempt + 1
                 /\ IF MayRetry(attempt + 1)
                    THEN \* wait_time = 2 ** attempt; time.sleep(wait_time)
                         /\ sleeps' = Append(sleeps, WaitTime(attempt + 1))
                         /\ UNCHANGED <<results, pc>>
                    ELSE \* break; return [] (line 97)
                         /\ results' = <<>>
                         /\ pc' = "write"
                         /\ UNCHANGED sleeps
    /\ UNCHANGED <<input, BATCH_SIZE, ckptFile, dirExists, artifacts, run,
                   processed_dois, doi_batches, batch_num, write_failed,
                   opened, artifactsAtStart, ckptAtStart, prevRun,
                   failed_ids>>

\* One iteration of the while loop, on any response of the registry.
FetchAttempt ==
    /\ pc = "fetch"
    /\ \E resp \in Responses(doi_batches[batch_num]) :
          FetchOn(resp) /\ UNCHANGED seen_response

\* A writer that assigns the dois of the batch to the set instead of adding
\* them.
WriteLinesReplace(name, k) ==
    /\ artifacts' = [n \in DOMAIN artifacts \cup {name} |->
                        IF n = name THEN LinesOf(results, k) ELSE artifacts[n]]
    /\ processed_dois' = DoisOf(results, k)
    /\ opened' = Append(opened, name)

\* gzip.open(batch_filepath, 'wt') creates or truncates the artifact; the loop
\* of lines 108-111 then writes line i and adds doi i, stopping at the first
\* error; k is the number of lines written before the `with` block was left.
WriteLines(name, k) ==
    /\ artifacts' = [n \in DOMAIN artifacts \cup {name} |->
                        IF n = name THEN LinesOf(results, k) ELSE artifacts[n]]
    /\ processed_dois' = processed_dois \cup DoisOf(results, k)
    /\ opened' = Append(opened, name)

\* Where main is after save_batch_compressed caught a write error (lines
\* 113-114 log it and return): at the checkpoint save of line 173.
\* AfterWriteErrorRaise is a writer that lets the error leave main.
AfterWriteErrorRaise == "crashed"

AfterWriteError == "save"

\* main(), lines 167-170, with save_batch_compressed (lines 99-116).
SaveBatch ==
    /\ pc = "write"
    /\ IF results = <<>>
       THEN \* logger.warning: nothing to save
            /\ write_failed' = FALSE
            /\ UNCHANGED <<artifacts, processed_dois, opened>>
       ELSE \/ \* gzip.open raises: nothing is opened
               /\ write_failed' = TRUE
               /\ UNCHANGED <<artifacts, processed_dois, opened>>
            \/ \* json.dumps, f.write or the closing flush raises after k lines
               /\ \E k \in 0..Len(results) :
                     WriteLines(BatchFilename(batch_num), k)
               /\ write_failed' = TRUE
            \/ \* every line written, the file closed
               /\ WriteLines(BatchFilename(batch_num), Len(results))
               /\ write_failed' = FALSE
    /\ pc' = IF write_failed' THEN AfterWriteError ELSE "save"
    /\ LET before == IF batch_num = 1 THEN {} ELSE failed_ids
       IN failed_ids' =
            IF \/ attempt = MAX_RETRIES
               \/ write_failed' /\ processed_dois' = processed_dois
                                /\ (opened' # opened =>
                                       artifacts'[BatchFilename(batch_num)] = <<>>)
            THEN before \cup Range(doi_batches[batch_num])
            ELSE before
    /\ attempt' = 0
    /\ fcalls' = 0
    /\ sleeps' = <<>>
    /\ last_response' = "none"
    /\ UNCHANGED <<seen_response,
                   input, BATCH_SIZE, ckptFile, dirExists, run, doi_batches,
                   batch_num, results, called, artifactsAtStart,
                   ckptAtStart, prevRun>>

\* A loop that requests a batch again when it brought no result.
NextBatchRepeat ==
    /\ write_failed' = FALSE
    /\ results' = <<>>
    /\ IF results = <<>> /\ ~write_failed
       THEN pc' = "fetch" /\ UNCHANGED batch_num
       ELSE IF batch_num < Len(doi_batches)
       THEN batch_num' = batch_num + 1 /\ pc' = "fetch"
       ELSE pc' = "done" /\ UNCHANGED batch_num

\* for batch_num, doi_batch in enumerate(doi_batches, start=1) (line 164):
\* the next iteration, or "Processing complete." (line 175).  results is
\* dead here: line 166 assigns it before it is read again.
NextBatch ==
    /\ write_failed' = FALSE
    /\ results' = <<>>
    /\ IF batch_num < Len(doi_batches)
       THEN /\ batch_num' = batch_num + 1
            /\ pc' = "fetch"
       ELSE /\ pc' = "done"
            /\ UNCHANGED batch_num

\* An exception of save_processed_dois (line 173) is caught nowhere in main:
\* it ends the run.  SaveFailedLogged is a main that logs it and goes on.
SaveFailedLogged == NextBatch

SaveFailed ==
    /\ pc' = "crashed"
    /\ UNCHANGED <<batch_num, write_failed, results>>

\* main(), line 173, with save_processed_dois (lines 49-56).  open(.., 'w')
\* truncates the artifact; the lines are written in the set's iteration
\* order, which is arbitrary.  An error is not caught anywhere in main.
SaveCheckpoint ==
    /\ pc = "save"
    /\ UNCHANGED failed_ids
    /\ \/ \* every line written, the file closed
          /\ ckptFile' = SavedFile(ckptFile, processed_dois)
          /\ NextBatch
       \/ \* open raises: the artifact is as it was
          /\ UNCHANGED ckptFile
          /\ SaveFailed
       \/ \* a write or the closing flush raises, or the process dies, after
          \* the lines of `written` reached the disk
          /\ \E written \in SUBSET processed_dois :
                ckptFile' = SavedFile(ckptFile, written)
          /\ SaveFailed
    /\ UNCHANGED <<seen_response,
                   input, BATCH_SIZE, dirExists, artifacts, run, processed_dois,
                   doi_batches, attempt, fcalls, sleeps, last_response, called,
                   opened, artifactsAtStart, ckptAtStart, prevRun>>

\* The program is invoked again on the same input and the same disk.
StartRun ==
    /\ pc \in Terminal
    /\ run < MaxRuns
    /\ run' = run + 1
    /\ prevRun' = pc
    /\ ckptAtStart' = ckptFile
    /\ pc' = "start"
    /\ processed_dois' = {}
    /\ doi_batches' = <<>>
    /\ batch_num' = 0
    /\ results' = <<>>
    /\ attempt' = 0
    /\ fcalls' = 0
    /\ sleeps' = <<>>
    /\ last_response' = "none"
    /\ called' = FALSE
    /\ write_failed' = FALSE
    /\ opened' = <<>>
    /\ artifactsAtStart' = artifacts
    /\ UNCHANGED <<failed_ids, seen_response,
                   input, BATCH_SIZE, ckptFile, dirExists, artifacts>>

Next ==
    \/ MainLoadError
    \/ MainLoad
    \/ FetchAttempt
    \/ SaveBatch
    \/ SaveCheckpoint
    \/ StartRun

Spec == Init /\ [][Next]_vars

\* A step of the running program.  Every registry call, sleep and file
\* operation returns or fails in finite time, so a run that can take a step
\* takes one; whether the program is invoked again is left open.
RunStep ==
    \/ MainLoadError
    \/ MainLoad
    \/ FetchAttempt
    \/ SaveBatch
    \/ SaveCheckpoint

\* One run on every input of Init and every checkpoint artifact a previous
\* run can have left over the lower-case identifiers.
InitRun ==
    /\ input \in {[kind |-> "unreadable", dois |-> <<>>],
                  [kind |-> "nodoi", dois |-> <<>>]}
                 \cup {[kind |-> "ok", dois |-> s] :
                         s \in SeqsUpTo(InputIds, MaxInput) \cup {CaseVariants}}
    /\ BATCH_SIZE \in 1..MaxBatchSize
    /\ ckptFile \in {NoFile}
                    \cup {FileOf(S) : S \in SUBSET {ToLower(d) : d \in InputIds}}
    /\ ckptAtStart = ckptFile
    /\ dirExists \in BOOLEAN
    /\ artifacts = <<>>
    /\ run = 1
    /\ pc = "start"
    /\ processed_dois = {}
    /\ doi_batches = <<>>
    /\ batch_num = 0
    /\ results = <<>>
    /\ attempt = 0
    /\ fcalls = 0
    /\ sleeps = <<>>
    /\ last_response = "none"
    /\ called = FALSE
    /\ write_failed = FALSE
    /\ opened = <<>>
    /\ artifactsAtStart = <<>>
    /\ prevRun = "none"
    /\ seen_response = NoResponse
    /\ failed_ids = {}

SpecFair == InitRun /\ [][RunStep]_vars /\ WF_vars(RunStep)

\* ------------------------------------------------- partitioning on its own
\* The first step of main() alone, on longer input lists, on every checkpoint
\* artifact over the lower-case identifiers, and on the batch size of the
\* source with input lists of DefaultBatchSize and DefaultBatchSize + 1
\* entries.
LongInput(n) == [i \in 1..n |-> IF i % 2 = 1 THEN <<98>> ELSE <<65>>]

InitPartition ==
    /\ \/ /\ input \in {[kind |-> "ok", dois |-> s] :
                             s \in SeqsUpTo(RawIds, PartMaxInput)}
                          \cup {[kind |-> "nodoi", dois |-> <<>>]}
          /\ BATCH_SIZE \in 1..PartMaxBatch \cup {DefaultBatchSize}
       \/ /\ input \in {[kind |-> "ok", dois |-> LongInput(n)] :
                             n \in {DefaultBatchSize, DefaultBatchSize + 1}}
          /\ BATCH_SIZE = DefaultBatchSize
    /\ ckptFile \in {NoFile} \cup {FileOf(S) : S \in SUBSET {<<97>>, <<98>>}}
    /\ ckptAtStart = ckptFile
    /\ dirExists = FALSE
    /\ artifacts = <<>>
    /\ run = 1
    /\ pc = "start"
    /\ processed_dois = {}
    /\ doi_batches = <<>>
    /\ batch_num = 0
    /\ results = <<>>
    /\ attempt = 0
    /\ fcalls = 0
    /\ sleeps = <<>>
    /\ last_response = "none"
    /\ called = FALSE
    /\ write_failed = FALSE
    /\ opened = <<>>
    /\ artifactsAtStart = <<>>
    /\ prevRun = "none"
    /\ seen_response = NoResponse
    /\ failed_ids = {}

NextPartition ==
    \/ MainLoadError
    \/ MainLoad

SpecPartition == InitPartition /\ [][NextPartition]_vars

\* ------------------------------------------------------ the fetcher on its own
\* fetch_metadata_batch alone, called on one batch of lower-case identifiers,
\* with the response of each registry call kept in the state.
InitFetch ==
    /\ \E b \in SeqsUpTo({ToLower(d) : d \in InputIds}, FetchMaxBatch)
                 \ {<<>>} :
          /\ input = [kind |-> "ok", dois |-> b]
          /\ BATCH_SIZE = Len(b)
          /\ doi_batches = <<b>>
    /\ ckptFile = NoFile
    /\ ckptAtStart = NoFile
    /\ dirExists = TRUE
    /\ artifacts = <<>>
    /\ run = 1
    /\ pc = "fetch"
    /\ processed_dois = {}
    /\ batch_num = 1
    /\ results = <<>>
    /\ attempt = 0
    /\ fcalls = 0
    /\ sleeps = <<>>
    /\ last_response = "none"
    /\ called = FALSE
    /\ write_failed = FALSE
    /\ opened = <<>>
    /\ artifactsAtStart = <<>>
    /\ prevRun = "none"
    /\ seen_response = NoResponse
    /\ failed_ids = {}

FetchAttemptSeen ==
    /\ pc = "fetch"
    /\ \E resp \in Responses(doi_batches[batch_num]) :
          FetchOn(resp) /\ seen_response' = resp

NextFetch == FetchAttemptSeen

SpecFetch == InitFetch /\ [][NextFetch]_vars

\* ------------------------------------------------------------------ claims
RECURSIVE SumSeq(_)
SumSeq(s) == IF s = <<>> THEN 0 ELSE Head(s) + SumSeq(Tail(s))

\* The identifiers whose record is a line of some batch artifact on disk.
Recorded ==
    UNION {{ToLower(artifacts[n][i].DOI) : i \in 1..Len(artifacts[n])} :
           n \in DOMAIN artifacts}

\* C1 (as claimed): a save_batch_compressed call whose write fails after
\* 0, 1, ..., n-1 of the batch's n record lines were written leaves the
\* in-memory CheckpointSet as it was before the call: none of the batch's
\* identifiers is added.
C1_AtomicCheckpoint ==
    [][(/\ pc = "write"
        /\ write_failed'
        /\ opened' # opened
        /\ Len(artifacts'[BatchFilename(batch_num)]) < Len(results))
       => processed_dois' = processed_dois]_vars

\* C2 (as claimed): no run opens for writing an artifact name that an earlier
\* batch of the same run or of an earlier run already wrote, and every
\* identifier of the checkpoint artifact has its record in some artifact.
C2_NeverRewritten ==
    /\ \A i \in DOMAIN opened :
          /\ opened[i] \notin DOMAIN artifactsAtStart
          /\ \A j \in DOMAIN opened : i # j => opened[i] # opened[j]
    /\ load_processed_dois(ckptFile) \subseteq Recorded

\* C3 (as claimed): whatever happens during save_processed_dois, a following
\* load returns the set the artifact held before the save or the set that
\* was being saved, never another one.
C3_CrashSafeSave ==
    [][pc = "save" =>
         load_processed_dois(ckptFile') \in
             {load_processed_dois(ckptFile),
              load_processed_dois(FileOf(processed_dois))}]_vars

\* C4: a fetch_metadata_batch whose every registry call failed has made
\* exactly MAX_RETRIES calls, has slept 2^k before retry k for
\* k = 1 .. MAX_RETRIES - 1 and not after the last failure, 2^1 + ... +
\* 2^(MAX_RETRIES-1) in total, and returns the empty list; while it is still
\* retrying it has slept 2^k once for each failure so far.
C4_RetryBound ==
    /\ pc = "fetch" =>
          /\ fcalls = attempt
          /\ attempt < MAX_RETRIES
          /\ sleeps = [k \in 1..attempt |-> 2^k]
    /\ (pc = "write" /\ fcalls = attempt) =>
          /\ fcalls = MAX_RETRIES
          /\ sleeps = [k \in 1..(MAX_RETRIES - 1) |-> 2^k]
          /\ SumSeq(sleeps) = 2^MAX_RETRIES - 2
          /\ results = <<>>

\* C4 witness: a fetch has just given up after MAX_RETRIES failed calls.
C4_Witness ==
    /\ pc = "write"
    /\ attempt = MAX_RETRIES
    /\ fcalls = MAX_RETRIES
    /\ Len(sleeps) = MAX_RETRIES - 1

\* The lower-cased input list and the CheckpointSet the current run loaded.
InputLower == LowerAll(input.dois)

LoadedAtStart == load_processed_dois(ckptAtStart)

\* No line occurs twice in the checkpoint artifact.
NoDuplicateLines ==
    \A l \in BagToSet(ckptFile.lines) : CopiesIn(l, ckptFile.lines) = 1

\* The current run has not touched the disk nor the registry.
RunIsIdle ==
    /\ ~called
    /\ ckptFile = ckptAtStart
    /\ opened = <<>>
    /\ artifacts = artifactsAtStart

\* C5 (as claimed): after a first run that reached "Processing complete.",
\* a second run on the same input issues no registry call and leaves the
\* checkpoint artifact as it was, and the checkpoint holds no identifier twice.
C5_Idempotence ==
    (run >= 2 /\ prevRun = "done") =>
        (~called /\ ckptFile = ckptAtStart /\ NoDuplicateLines)

\* C5 (amended): the same, for a first run that reached "Processing
\* complete." and left a checkpoint artifact holding every lower-cased input
\* identifier.
C5_IdempotenceWhenAllCheckpointed ==
    (run >= 2 /\ prevRun = "done" /\ Range(InputLower) \subseteq LoadedAtStart)
        => (~called /\ ckptFile = ckptAtStart /\ NoDuplicateLines)

\* C5 witness: the second run has ended after a first run that completed
\* with both identifiers of a two-batch input checkpointed.
C5_Witness ==
    /\ run = 2
    /\ prevRun = "done"
    /\ pc = "exit_all_processed"
    /\ Len(input.dois) = 2
    /\ BATCH_SIZE = 1
    /\ load_processed_dois(ckptFile) = {<<97>>, <<98>>}

\* list without the members of set, order and repetitions kept: its j-th
\* entry is the entry of list at the j-th position that holds no member of set
Without(list, set) ==
    LET kept == {i \in DOMAIN list : list[i] \notin set}
    IN [j \in 1..Cardinality(kept) |->
           list[CHOOSE i \in kept : Cardinality({x \in kept : x <= i}) = j]]

RECURSIVE Flatten(_)
Flatten(batches) ==
    IF batches = <<>> THEN <<>> ELSE Head(batches) \o Flatten(Tail(batches))

\* The run is past the Batcher: the batches of this run are built (or the
\* run ended because there was nothing to build).
PastBatcher == input.kind = "ok" /\ pc \notin {"start", "exit_load_error"}

\* C6: the concatenation of the batches is the lower-cased input list without
\* the identifiers of the loaded CheckpointSet, in input order, repetitions
\* kept; no batch holds a checkpointed identifier and no other input
\* identifier is missing from the batches.
C6_Resumability ==
    PastBatcher =>
        /\ Flatten(doi_batches) = Without(InputLower, LoadedAtStart)
        /\ \A k \in DOMAIN doi_batches :
              Range(doi_batches[k]) \cap LoadedAtStart = {}
        /\ Range(InputLower) \ LoadedAtStart
              \subseteq UNION {Range(doi_batches[k]) : k \in DOMAIN doi_batches}

\* C6 witness: checkpoint {a}, input with a checkpointed identifier between
\* two others, more than one batch built.
C6_Witness ==
    /\ PastBatcher
    /\ LoadedAtStart = {<<97>>}
    /\ InputLower = <<<<98>>, <<97>>, <<98>>, <<97>>>>
    /\ Len(doi_batches) = 2

\* C7: n >= 1 remaining identifiers and batch size B give ceil(n / B)
\* batches, all of B identifiers but the last, which has between 1 and B;
\* n = 101 and B = 100 give two batches of 100 and 1.
C7_BatchSizeBoundary ==
    LET n == Len(Without(InputLower, LoadedAtStart))
        B == BATCH_SIZE
        m == Len(doi_batches)
    IN (PastBatcher /\ n >= 1) =>
          /\ (m - 1) * B < n
          /\ n <= m * B
          /\ \A k \in 1..(m - 1) : Len(doi_batches[k]) = B
          /\ Len(doi_batches[m]) \in 1..B
          /\ (n = 101 /\ B = 100) =>
                (m = 2 /\ Len(doi_batches[1]) = 100 /\ Len(doi_batches[2]) = 1)

\* C7 witness: 101 remaining identifiers partitioned with batch size 100.
C7_Witness ==
    /\ PastBatcher
    /\ Len(Without(InputLower, LoadedAtStart)) = 101
    /\ BATCH_SIZE = 100
    /\ Len(doi_batches) = 2

\* C8: a run whose every lower-cased input identifier is in the loaded
\* CheckpointSet ends at once, with no batch, no registry call, no artifact
\* written and the checkpoint artifact untouched.
C8_EmptyRemainder ==
    (/\ input.kind = "ok"
     /\ pc # "start"
     /\ Range(InputLower) \subseteq LoadedAtStart)
        => /\ pc \in {"exit_all_processed", "exit_load_error"}
           /\ doi_batches = <<>>
           /\ RunIsIdle

\* C8 witness: a run ended by the short-circuit on a non-empty input, after
\* an earlier run that crashed in its last checkpoint save.
C8_Witness ==
    /\ pc = "exit_all_processed"
    /\ input.dois # <<>>
    /\ prevRun = "crashed"
    /\ doi_batches = <<>>

\* C9: no exception leaves fetch_metadata_batch, whatever the registry call
\* does; what it returns is a list of (lower-cased identifier, record)
\* pairs, each record carrying that identifier.
C9_FetcherNeverRaises ==
    /\ pc # "fetch_raised"
    /\ pc = "write" =>
          \A i \in DOMAIN results :
              /\ results[i][1] # <<>>
              /\ results[i][1] = ToLower(results[i][2].DOI)

\* C9 witness: a fetch returned the empty list after absorbing MAX_RETRIES
\* errors, the last one from a single mapping without 'message'.
C9_Witness ==
    /\ pc = "write"
    /\ attempt = MAX_RETRIES
    /\ last_response = "dict"
    /\ results = <<>>

\* C10: every identifier in a batch, in the in-memory CheckpointSet and in
\* the checkpoint artifact is lower-case; the inputs "A" and "a" end as the
\* single checkpoint entry "a".
C10_CaseNormalization ==
    /\ \A k \in DOMAIN doi_batches : \A d \in Range(doi_batches[k]) : IsLower(d)
    /\ \A d \in processed_dois : IsLower(d)
    /\ \A d \in load_processed_dois(ckptFile) : IsLower(d)
    /\ input.dois = CaseVariants =>
          /\ processed_dois \subseteq {<<97>>}
          /\ load_processed_dois(ckptFile) \subseteq {<<97>>}

\* C10 witness: the run on the inputs "A" and "a" has completed, the
\* registry echoed "A", and the checkpoint holds the single entry "a".
C10_Witness ==
    /\ input.dois = CaseVariants
    /\ pc = "done"
    /\ processed_dois = {<<97>>}
    /\ load_processed_dois(ckptFile) = {<<97>>}
    /\ \E n \in DOMAIN artifacts :
          \E i \in DOMAIN artifacts[n] : artifacts[n][i].DOI = <<65>>

\* C11: an error of save_processed_dois is fatal.  A save step that does not
\* leave the set being saved on disk ends the run in the crashed position,
\* and from there the only step is a new invocation of the program: no fetch,
\* no artifact write and no checkpoint save follows in that run, the disk
\* stays as the failed save left it, and "Processing complete." is not
\* reached.
C11_SaveErrorFatal ==
    [][/\ (pc = "save" /\ load_processed_dois(ckptFile') # processed_dois)
              => pc' = "crashed"
       /\ pc = "crashed"
              => /\ pc' = "start" /\ run' = run + 1
                 /\ ckptFile' = ckptFile /\ artifacts' = artifacts
                 /\ ~called']_vars

\* A save failed after a batch that is not the last one, leaving part of the
\* set on disk.
C11_Witness ==
    /\ pc = "crashed"
    /\ batch_num < Len(doi_batches)
    /\ load_processed_dois(ckptFile) # processed_dois

\* C12: a run on an input artifact that cannot be used (unreadable, no 'doi'
\* column, or no identifier) ends at an early return of the load phase: no
\* registry call, no artifact opened or changed, the checkpoint artifact and
\* the output directory not created, and nothing loaded or partitioned.
C12_LoadErrorNoTrace ==
    ((input.kind # "ok" \/ input.dois = <<>>) /\ pc # "start")
        => /\ pc = "exit_load_error"
           /\ RunIsIdle
           /\ ckptFile = NoFile
           /\ ~dirExists
           /\ artifacts = <<>>
           /\ processed_dois = {} /\ doi_batches = <<>> /\ batch_num = 0

\* The second run on an input artifact without 'doi' column has ended.
C12_Witness ==
    /\ input.kind = "nodoi"
    /\ pc = "exit_load_error"
    /\ run = 2

\* C13: per-batch ordering.  Within a run the steps of batch k are its fetch
\* attempts, then one step of the writer (which touches an artifact only
\* when results is non-empty and goes on to the save also after a write
\* error), then one checkpoint save.  The disk changes in no other step: the
\* artifacts only in the writer's step, the checkpoint only in the save
\* step.  The fetch of batch k+1 is entered only by the save step of batch k
\* that left the whole set on disk, and the fetch of batch 1 only by the
\* load.
C13_PerBatchOrder ==
    [][/\ pc = "fetch"
            => /\ pc' \in {"fetch", "write"}
               /\ batch_num' = batch_num
               /\ ckptFile' = ckptFile /\ artifacts' = artifacts
       /\ pc = "write"
            => /\ pc' = "save"
               /\ batch_num' = batch_num
               /\ ckptFile' = ckptFile
               /\ results = <<>> => (artifacts' = artifacts /\ opened' = opened)
       /\ pc = "save"
            => /\ artifacts' = artifacts
               /\ \/ pc' = "crashed"
                  \/ /\ ckptFile' = FileOf(processed_dois)
                     /\ \/ pc' = "fetch" /\ batch_num' = batch_num + 1
                        \/ pc' = "done" /\ batch_num = Len(doi_batches)
       /\ (pc' = "fetch" /\ pc # "fetch")
            => \/ pc = "save"
               \/ pc = "start" /\ batch_num' = 1]_vars

\* The writer failed on batch 1 of 2 and the run went on to save.
C13_Witness ==
    /\ pc = "save"
    /\ write_failed
    /\ batch_num = 1
    /\ Len(doi_batches) = 2

\* The fetch of batch 2 has begun after an empty fetch result for batch 1.
C13_WitnessNext ==
    /\ pc = "fetch"
    /\ batch_num = 2
    /\ opened = <<>>
    /\ ckptFile.exists

\* A registry call that ended in one of the request-level failures the
\* specification names: the call raised, the value returned is neither a list
\* nor a mapping, or an element of it is an error structure without
\* 'message'.
RequestFailure(resp) ==
    \/ resp.type \in {"raise", "other"}
    \/ \E i \in DOMAIN resp.elems : resp.elems[i].kind = "nomsg"

\* C14: retry on every request-level failure.  When fetch_metadata_batch has
\* returned and its last registry call ended in a request-level failure,
\* MAX_RETRIES calls have been made.
C14_RetryOnEveryFailure ==
    (pc = "write" /\ RequestFailure(seen_response)) => fcalls = MAX_RETRIES

\* A registry response that is what the call is documented to give: a list
\* of mappings that carry a 'message', or one such mapping.
WellFormed(resp) ==
    /\ resp.type \in {"list", "dict"}
    /\ \A i \in DOMAIN resp.elems : resp.elems[i].kind = "msg"

HasDoi(e) == e.doi # <<>>

\* The (lower-case doi, record) pairs of the records that carry a 'DOI', in
\* the order of the response.
Resolved(resp) ==
    LET kept == SelectSeq(resp.elems, HasDoi)
    IN [i \in DOMAIN kept |-> <<ToLower(kept[i].doi), [DOI |-> kept[i].doi]>>]

\* C15 as stated: the first registry call that returns without raising ends
\* the retry sequence of the batch.
C15_FirstReturnEnds ==
    (fcalls >= 1 /\ seen_response.type # "raise") => pc = "write"

\* C15, amended: the first registry call that returns a well-formed response
\* ends the retry sequence of the batch: fetch_metadata_batch returns the
\* records that carry a 'DOI', which may be fewer than requested or none, all
\* calls before this one failed, and no further call can be made for the
\* batch.
C15_FirstWellFormedEnds ==
    (fcalls >= 1 /\ WellFormed(seen_response))
        => /\ pc = "write"
           /\ fcalls = attempt + 1
           /\ results = Resolved(seen_response)
           /\ Len(results) <= Len(doi_batches[batch_num])
           /\ ~ENABLED NextFetch

\* The second call answered a batch of two with one record that carries a
\* 'DOI' and one that does not.
C15_Witness ==
    /\ pc = "write"
    /\ fcalls = 2
    /\ seen_response.type = "list"
    /\ Len(seen_response.elems) = 2
    /\ WellFormed(seen_response)
    /\ Len(results) = 1

\* The identifiers the checkpoint artifact holds durably: what a load of it
\* gives.
Durable == load_processed_dois(ckptFile)

\* C16: disk and memory never diverge by more than one batch.  In a run in
\* which no checkpoint save has failed, an identifier of the in-memory set
\* that the checkpoint artifact does not hold is one of the results of the
\* batch whose save is pending; outside that window, and so right after each
\* save, the two sets are equal.
C16_DiskMemoryOneBatch ==
    pc \in {"fetch", "write", "save", "done", "exit_all_processed"}
        => /\ processed_dois \ Durable
                  \subseteq (IF pc = "save"
                             THEN DoisOf(results, Len(results)) ELSE {})
           /\ pc # "save" => processed_dois = Durable

\* Batch 2 is being fetched after batch 1 was written and saved.
C16_Witness ==
    /\ pc = "fetch"
    /\ batch_num = 2
    /\ processed_dois # {}
    /\ processed_dois = Durable

\* Between the writer and the save the memory is ahead of the disk.
C16_WitnessAhead ==
    /\ pc = "save"
    /\ processed_dois \ Durable # {}

\* The identifiers of a list of batches.
IdsOf(batches) == UNION {Range(batches[k]) : k \in DOMAIN batches}

\* Within one run the batches are fetched in increasing sequence number, each
\* entered once and none entered again, and a batch whose fetch gave up or
\* whose write recorded nothing adds no identifier to the CheckpointSet.
OneFetchPerBatch ==
    /\ run' = run => batch_num' \in {batch_num, batch_num + 1}
    /\ (pc' = "fetch" /\ pc # "fetch") => batch_num' = batch_num + 1
    /\ (pc = "write" /\ (attempt = MAX_RETRIES
                            \/ (write_failed' /\ opened' = opened)))
           => /\ processed_dois' = processed_dois
              /\ Range(doi_batches[batch_num]) \subseteq failed_ids'

\* C17 as stated: OneFetchPerBatch holds of every step, and when a run builds
\* its batches they hold every identifier of the batches the run before gave
\* up on.
C17_DeferredRecovery ==
    [][/\ OneFetchPerBatch
       /\ (pc = "start" /\ pc' # "start" /\ run > 1)
              => failed_ids \subseteq IdsOf(doi_batches')]_vars

\* C17, amended: OneFetchPerBatch holds of every step, and when a run builds
\* its batches they hold every identifier of the batches the run before gave
\* up on that the checkpoint artifact does not hold, and no identifier that
\* it holds: an identifier that another batch recorded as well is not
\* requested again.
C17_DeferredRecoveryUnlessRecorded ==
    [][/\ OneFetchPerBatch
       /\ (pc = "start" /\ pc' # "start" /\ run > 1)
              => /\ failed_ids \ Durable \subseteq IdsOf(doi_batches')
                 /\ IdsOf(doi_batches') \cap Durable = {}]_vars

\* The first run went through two batches, recorded the first and gave up
\* on the second; the second run has built its batches, which hold the
\* identifiers of the batch given up and not the one recorded.
C17_Witness ==
    /\ run = 2
    /\ pc = "fetch"
    /\ prevRun = "done"
    /\ fcalls = 0
    /\ batch_num = 1
    /\ failed_ids # {}
    /\ failed_ids \subseteq IdsOf(doi_batches)
    /\ Range(InputLower) \ IdsOf(doi_batches) # {}

\* C18: the in-memory CheckpointSet is created by the load, written only by
\* the batch writer, and only grows.  A step that changes it is the load
\* (which sets it to what the checkpoint artifact holds), the writer (which
\* adds dois of the current results and removes none), or the start of a new
\* invocation with its own, empty, set; fetch and save steps leave it as it
\* is.  So a save that succeeds leaves on disk a superset of what the run
\* loaded.
C18_OnlyWriterGrows ==
    [][/\ processed_dois' # processed_dois
            => \/ pc = "start" /\ run' = run /\ processed_dois' = Durable
               \/ /\ pc = "write"
                  /\ processed_dois \subseteq processed_dois'
                  /\ processed_dois' \ processed_dois
                         \subseteq DoisOf(results, Len(results))
               \/ run' = run + 1 /\ processed_dois' = {}
       /\ (run' = run /\ pc # "start")
            => processed_dois \subseteq processed_dois'
       /\ (pc = "save" /\ pc' \in {"fetch", "done"})
            => /\ LoadedAtStart \subseteq load_processed_dois(ckptFile')
               /\ load_processed_dois(ckptFile') = processed_dois]_vars

\* The second run loaded a non-empty checkpoint, wrote a batch that added to
\* it, and saved.
C18_Witness ==
    /\ run = 2
    /\ pc \in {"fetch", "done"}
    /\ opened # <<>>
    /\ LoadedAtStart # {}
    /\ LoadedAtStart \subseteq Durable
    /\ Durable # LoadedAtStart

\* The artifact named from batch number k.
NamedFrom(k) == <<"batch_", k, ".jsonl.gz">>

\* C19: within one run, the writer's step for batch k opens at most the
\* artifact named from k and changes no other artifact; with an empty fetch
\* result it opens and changes nothing; no other step of the run opens or
\* changes an artifact.  The artifacts a run has opened are named from
\* strictly increasing batch numbers, so distinct batches write distinct
\* artifacts and none is opened twice.
C19_OneArtifactPerBatch ==
    [][/\ (pc = "write" /\ results = <<>>)
            => artifacts' = artifacts /\ opened' = opened
       /\ (pc = "write" /\ results # <<>>)
            => /\ opened' \in {opened, Append(opened, NamedFrom(batch_num))}
               /\ opened' = opened => artifacts' = artifacts
               /\ DOMAIN artifacts' \subseteq
                      DOMAIN artifacts \cup {NamedFrom(batch_num)}
               /\ \A n \in DOMAIN artifacts \ {NamedFrom(batch_num)} :
                      artifacts'[n] = artifacts[n]
       /\ pc # "write"
            => /\ artifacts' = artifacts
               /\ opened' = opened \/ (run' = run + 1 /\ opened' = <<>>)
       /\ \A i, j \in DOMAIN opened' :
              i < j => \E k, l \in 1..batch_num' :
                          /\ k < l
                          /\ opened'[i] = NamedFrom(k)
                          /\ opened'[j] = NamedFrom(l)]_vars

\* Both batches of a run have written their artifacts.
C19_Witness ==
    /\ Len(opened) = 2
    /\ opened[1] # opened[2]
    /\ opened[1] \in DOMAIN artifacts
    /\ opened[2] \in DOMAIN artifacts

\* C20: termination.  Under SpecFair every run that has not ended ends: no
\* fetch makes more than MAX_RETRIES calls, within a run the batch number
\* only moves forward through the batches of the run, and from every
\* position of a run a terminal position is reached, whatever fetches and
\* writes fail.
C20_Termination ==
    /\ [](fcalls <= MAX_RETRIES /\ attempt <= MAX_RETRIES
              /\ batch_num <= Len(doi_batches))
    /\ [][run' = run => batch_num' \in {batch_num, batch_num + 1}]_vars
    /\ (pc \notin Terminal) ~> (pc \in Terminal)

\* A run of two batches has come to its end although the fetch of one batch
\* gave up and the write of the other failed.
C20_Witness ==
    /\ pc = "done"
    /\ Len(doi_batches) = 2
    /\ failed_ids # {}
    /\ opened # <<>>
    /\ DOMAIN artifacts # {}
    /\ \E n \in DOMAIN artifacts : artifacts[n] = <<>>

====
